---- MODULE Spec2Model ----
(***************************************************************************)
(* Vault<ElementData> of src/main.cpp: a fixed array of elements, each     *)
(* with a payload, a mutex and an atomic inUse flag, and one vault-wide    *)
(* mutex taken by allocate() and deallocate(pred).  A step of a thread is   *)
(* one blocking lock, one element of a scan, or one payload access.        *)
(***************************************************************************)
EXTENDS Naturals, Sequences, FiniteSets, TLC

\* ------------------------------------------------------------- bounds
NumSlots == 2          \* elements of the vault (maxElementNumber, scaled down)
NumThreads == 2        \* threads (threadsCount, scaled down)
MaxCalls == 4          \* calls an arbitrary client makes in all
Iterations == 1        \* field_1++ rounds of each modifying thread
DrainStride == 1       \* idx += stride of the draining threads

Slots == 0 .. (NumSlots - 1)
Threads == 1 .. NumThreads
NoIdx == NumSlots

VARIABLES
    storage,             \* std::array<Element, maxElementNumber>
    access,              \* Vault::access, the set of threads owning it
    pc,                  \* where each thread stands
    op,                  \* the operation each thread called last
    idx,                 \* each thread's idx argument, iterator or viewed slot
    ret,                 \* what each thread's last call returned or threw
    tmp,                 \* the value read by a thread's pending field_1++
    n,                   \* each driver thread's loop variable
    deallocationsCount,  \* main's std::atomic_size_t
    calls,               \* calls made so far
    expect               \* the count main prints after "expect"

vars == <<storage, access, pc, op, idx, ret, tmp, n, deallocationsCount, calls, expect>>
driver == <<n, deallocationsCount, calls, expect>>

\* ------------------------------------------------------------- payload
Data0 == [field_1 |-> 0, field_3 |-> <<>>]

Element0 == [data |-> Data0, access |-> {}, inUse |-> FALSE]

\* fmt::format("{}_{}", a, b) of two numbers: the two numbers, in order
Format(a, b) == <<a, b>>

\* fmt::format("{}_{}", s, b) of a string and a number: s with b after it
FormatStr(s, b) == Append(s, b)

\* d.field_3.starts_with("2_")
prefix_pred(d) == Len(d.field_3) >= 1 /\ d.field_3[1] = 2

\* ------------------------------------------------------------- mutexes
\* a lock that does not wait for the owner
CanLockAny(m) == TRUE

\* std::mutex::lock returns only when no thread owns the mutex
CanLock(m) == m = {}

Lock(m, t) == m \cup {t}

Unlock(m, t) == m \ {t}

\* ------------------------------------------------------------- helpers
Goto(t, l) == pc' = [pc EXCEPT ![t] = l]

\* the call is over: r is what it returned or threw
Return(t, r) ==
    /\ pc' = [pc EXCEPT ![t] = "idle"]
    /\ ret' = [ret EXCEPT ![t] = r]
    /\ idx' = [idx EXCEPT ![t] = NoIdx]

\* the call's failure before any lock is taken
Throw(t, o, r) ==
    /\ pc[t] = "idle"
    /\ op' = [op EXCEPT ![t] = o]
    /\ ret' = [ret EXCEPT ![t] = r]
    /\ UNCHANGED <<pc, idx>>

Enter(t, o, l, i) ==
    /\ pc[t] = "idle"
    /\ op' = [op EXCEPT ![t] = o]
    /\ pc' = [pc EXCEPT ![t] = l]
    /\ ret' = [ret EXCEPT ![t] = "none"]
    /\ idx' = [idx EXCEPT ![t] = i]

\* ------------------------------------------------------------- view(idx)
\* storage.at(idx) throws before any lock is taken
ViewCall(t, i) ==
    /\ pc[t] = "idle"
    /\ IF i \notin Slots
         THEN Throw(t, "view", "IndexOutOfRange")
         ELSE Enter(t, "view", "view_lock", i)
    /\ UNCHANGED <<storage, access, tmp>>

\* a view constructed only once the vault's mutex is free as well
ViewLockAfterScan(t) ==
    /\ pc[t] = "view_lock"
    /\ CanLock(access)
    /\ CanLock(storage[idx[t]].access)
    /\ storage' = [storage EXCEPT ![idx[t]].access = Lock(@, t)]
    /\ Goto(t, "view_check")
    /\ UNCHANGED <<op, access, idx, ret, tmp>>

\* a view constructed without waiting for the element's mutex
ViewLockRacy(t) ==
    /\ pc[t] = "view_lock"
    /\ storage' = [storage EXCEPT ![idx[t]].access = Lock(@, t)]
    /\ Goto(t, "view_check")
    /\ UNCHANGED <<op, access, idx, ret, tmp>>

\* ElementView v{storage.at(idx)};
ViewLock(t) ==
    /\ pc[t] = "view_lock"
    /\ CanLock(storage[idx[t]].access)
    /\ storage' = [storage EXCEPT ![idx[t]].access = Lock(@, t)]
    /\ Goto(t, "view_check")
    /\ UNCHANGED <<op, access, idx, ret, tmp>>

\* a view returned without the check of inUse
ViewUnchecked(t) ==
    /\ pc[t] = "view_check"
    /\ Goto(t, "open")
    /\ ret' = [ret EXCEPT ![t] = "View"]
    /\ UNCHANGED <<op, storage, idx, access, tmp>>

\* if (!storage.at(idx).inUse) throw (v is destroyed, its lock released);
\* return v;
ViewCheck(t) ==
    /\ pc[t] = "view_check"
    /\ IF ~storage[idx[t]].inUse
         THEN /\ storage' = [storage EXCEPT ![idx[t]].access = Unlock(@, t)]
              /\ Return(t, "NotAllocated")
         ELSE /\ Goto(t, "open")
              /\ ret' = [ret EXCEPT ![t] = "View"]
              /\ UNCHANGED <<storage, idx>>
    /\ UNCHANGED <<op, access, tmp>>

\* ------------------------------------------------------------- allocate()
AllocateCall(t) ==
    /\ Enter(t, "allocate", "alloc_lock", NoIdx)
    /\ UNCHANGED <<storage, access, tmp>>

\* a scan begun without waiting for the vault's mutex
AllocLockRacy(t) ==
    /\ pc[t] = "alloc_lock"
    /\ access' = Lock(access, t)
    /\ idx' = [idx EXCEPT ![t] = 0]
    /\ Goto(t, "alloc_find")
    /\ UNCHANGED <<op, storage, ret, tmp>>

\* std::unique_lock _{access};
AllocLock(t) ==
    /\ pc[t] = "alloc_lock"
    /\ CanLock(access)
    /\ access' = Lock(access, t)
    /\ idx' = [idx EXCEPT ![t] = 0]
    /\ Goto(t, "alloc_find")
    /\ UNCHANGED <<op, storage, ret, tmp>>

\* a scan that may pass over an element not in use
AllocFindSkips(t) ==
    /\ pc[t] = "alloc_find"
    /\ IF idx[t] = NumSlots
         THEN /\ access' = Unlock(access, t)
              /\ Return(t, "CapacityExceeded")
         ELSE \/ /\ ~storage[idx[t]].inUse
                 /\ Goto(t, "alloc_store")
                 /\ UNCHANGED <<access, idx, ret>>
              \/ /\ idx' = [idx EXCEPT ![t] = @ + 1]
                 /\ UNCHANGED <<access, pc, ret>>
    /\ UNCHANGED <<op, storage, tmp>>

\* a scan whose exception leaves the vault's mutex locked
AllocFindLeak(t) ==
    /\ pc[t] = "alloc_find"
    /\ IF idx[t] = NumSlots
         THEN Return(t, "CapacityExceeded") /\ UNCHANGED access
         ELSE IF ~storage[idx[t]].inUse
                THEN Goto(t, "alloc_store") /\ UNCHANGED <<access, idx, ret>>
                ELSE /\ idx' = [idx EXCEPT ![t] = @ + 1]
                     /\ UNCHANGED <<access, pc, ret>>
    /\ UNCHANGED <<op, storage, tmp>>

\* std::ranges::find_if_not(storage, &Element::inUse), one element per step;
\* at the end of the array the exception unwinds the unique_lock
AllocFind(t) ==
    /\ pc[t] = "alloc_find"
    /\ IF idx[t] = NumSlots
         THEN /\ access' = Unlock(access, t)
              /\ Return(t, "CapacityExceeded")
         ELSE IF ~storage[idx[t]].inUse
                THEN Goto(t, "alloc_store") /\ UNCHANGED <<access, idx, ret>>
                ELSE /\ idx' = [idx EXCEPT ![t] = @ + 1]
                     /\ UNCHANGED <<access, pc, ret>>
    /\ UNCHANGED <<op, storage, tmp>>

\* the element handed out with a fresh payload
AllocStoreReset(t) ==
    /\ pc[t] = "alloc_store"
    /\ storage' = [storage EXCEPT ![idx[t]].inUse = TRUE, ![idx[t]].data = Data0]
    /\ Goto(t, "alloc_view")
    /\ UNCHANGED <<op, access, idx, ret, tmp>>

\* iter->inUse.store(true);
AllocStore(t) ==
    /\ pc[t] = "alloc_store"
    /\ storage' = [storage EXCEPT ![idx[t]].inUse = TRUE]
    /\ Goto(t, "alloc_view")
    /\ UNCHANGED <<op, access, idx, ret, tmp>>

\* return ElementView{*iter}: the element's mutex is locked, then the
\* unique_lock on the vault's mutex goes out of scope
AllocView(t) ==
    /\ pc[t] = "alloc_view"
    /\ CanLock(storage[idx[t]].access)
    /\ storage' = [storage EXCEPT ![idx[t]].access = Lock(@, t)]
    /\ access' = Unlock(access, t)
    /\ Goto(t, "open")
    /\ ret' = [ret EXCEPT ![t] = "View"]
    /\ UNCHANGED <<op, idx, tmp>>

\* ------------------------------------------------------------- deallocate(idx)
\* an index past the end taken for the last element: no range check
DeallocCallClamped(t, i) ==
    /\ Enter(t, "deallocate", "dealloc_lock", IF i \in Slots THEN i ELSE NumSlots - 1)
    /\ UNCHANGED <<storage, access, tmp>>

\* Element &e{storage.at(idx)}; at() throws before any lock is taken
DeallocCall(t, i) ==
    /\ pc[t] = "idle"
    /\ IF i \notin Slots
         THEN Throw(t, "deallocate", "IndexOutOfRange")
         ELSE Enter(t, "deallocate", "dealloc_lock", i)
    /\ UNCHANGED <<storage, access, tmp>>

\* std::unique_lock _{e.access};
DeallocLock(t) ==
    /\ pc[t] = "dealloc_lock"
    /\ CanLock(storage[idx[t]].access)
    /\ storage' = [storage EXCEPT ![idx[t]].access = Lock(@, t)]
    /\ Goto(t, "dealloc_xchg")
    /\ UNCHANGED <<op, access, idx, ret, tmp>>

\* return e.inUse.load(); the flag is left as it was
ExchangeLoad(t) ==
    /\ storage' = [storage EXCEPT ![idx[t]].access = Unlock(@, t)]
    /\ Return(t, IF storage[idx[t]].inUse THEN "true" ELSE "false")

\* inUse.store(false); return inUse;
ExchangeNew(t) ==
    /\ storage' = [storage EXCEPT ![idx[t]].inUse = FALSE,
                                  ![idx[t]].access = Unlock(@, t)]
    /\ Return(t, "false")

\* return e.inUse.exchange(false); the unique_lock then goes out of scope
Exchange(t) ==
    /\ storage' = [storage EXCEPT ![idx[t]].inUse = FALSE,
                                  ![idx[t]].access = Unlock(@, t)]
    /\ Return(t, IF storage[idx[t]].inUse THEN "true" ELSE "false")

DeallocXchg(t) ==
    /\ pc[t] = "dealloc_xchg"
    /\ Exchange(t)
    /\ UNCHANGED <<op, access, tmp>>

\* ------------------------------------------------------------- deallocate(pred)
PredCall(t) ==
    /\ Enter(t, "deallocate_pred", "pred_lock", NoIdx)
    /\ UNCHANGED <<storage, access, tmp>>

\* std::unique_lock _1{access};
PredLock(t) ==
    /\ pc[t] = "pred_lock"
    /\ CanLock(access)
    /\ access' = Lock(access, t)
    /\ idx' = [idx EXCEPT ![t] = 0]
    /\ Goto(t, "pred_find")
    /\ UNCHANGED <<op, storage, ret, tmp>>

\* pred(e.data) is read with no element lock held: while another thread is
\* in the middle of assigning the payload the read races with the write,
\* and the predicate may come out either way.
PredRead(t, i) ==
    IF \E u \in Threads \ {t} : pc[u] = "assign" /\ idx[u] = i
      THEN BOOLEAN
      ELSE {prefix_pred(storage[i].data)}

\* find_if(storage, pred(e.data)): the scan forgets e.inUse
PredFindAnyState(t) ==
    /\ pc[t] = "pred_find"
    /\ IF idx[t] = NumSlots
         THEN /\ access' = Unlock(access, t)
              /\ Return(t, "false")
         ELSE \E m \in PredRead(t, idx[t]) :
                IF m
                  THEN Goto(t, "pred_lock2") /\ UNCHANGED <<access, idx, ret>>
                  ELSE /\ idx' = [idx EXCEPT ![t] = @ + 1]
                       /\ UNCHANGED <<access, pc, ret>>
    /\ UNCHANGED <<op, storage, tmp>>

\* std::ranges::find_if(storage, e.inUse && pred(e.data)), one element per step
PredFind(t) ==
    /\ pc[t] = "pred_find"
    /\ IF idx[t] = NumSlots
         THEN /\ access' = Unlock(access, t)
              /\ Return(t, "false")
         ELSE \E m \in PredRead(t, idx[t]) :
                IF storage[idx[t]].inUse /\ m
                  THEN Goto(t, "pred_lock2") /\ UNCHANGED <<access, idx, ret>>
                  ELSE /\ idx' = [idx EXCEPT ![t] = @ + 1]
                       /\ UNCHANGED <<access, pc, ret>>
    /\ UNCHANGED <<op, storage, tmp>>

\* the predicate evaluated again once the element's mutex is owned: an
\* element that matches no more is left alone
PredLock2Recheck(t) ==
    /\ pc[t] = "pred_lock2"
    /\ CanLock(storage[idx[t]].access)
    /\ access' = Unlock(access, t)
    /\ IF prefix_pred(storage[idx[t]].data)
         THEN /\ storage' = [storage EXCEPT ![idx[t]].access = Lock(@, t)]
              /\ Goto(t, "pred_xchg")
              /\ UNCHANGED <<idx, ret>>
         ELSE /\ Return(t, "false")
              /\ UNCHANGED storage
    /\ UNCHANGED <<op, tmp>>

\* std::unique_lock _2{iter->access}; with _1 moved out and never unlocked
PredLock2KeepsAccess(t) ==
    /\ pc[t] = "pred_lock2"
    /\ CanLock(storage[idx[t]].access)
    /\ storage' = [storage EXCEPT ![idx[t]].access = Lock(@, t)]
    /\ Goto(t, "pred_xchg")
    /\ UNCHANGED <<op, access, idx, ret, tmp>>

\* std::unique_lock _2{iter->access}; _1.unlock();
PredLock2(t) ==
    /\ pc[t] = "pred_lock2"
    /\ CanLock(storage[idx[t]].access)
    /\ storage' = [storage EXCEPT ![idx[t]].access = Lock(@, t)]
    /\ access' = Unlock(access, t)
    /\ Goto(t, "pred_xchg")
    /\ UNCHANGED <<op, idx, ret, tmp>>

\* return true; whatever the exchange read, since the scan had found the element
PredXchgTrue(t) ==
    /\ pc[t] = "pred_xchg"
    /\ storage' = [storage EXCEPT ![idx[t]].inUse = FALSE,
                                  ![idx[t]].access = Unlock(@, t)]
    /\ Return(t, "true")
    /\ UNCHANGED <<op, access, tmp>>

\* return iter->inUse.exchange(false);
PredXchg(t) ==
    /\ pc[t] = "pred_xchg"
    /\ Exchange(t)
    /\ UNCHANGED <<op, access, tmp>>

\* ------------------------------------------------------------- ElementView
\* the thread holds a view it was returned
Holding == {"open", "assign", "incr", "assigned"}

\* view().field_3.assign(s); view().field_1 = 0;  begun ...
AssignBegin(t) ==
    /\ pc[t] = "open"
    /\ Goto(t, "assign")
    /\ UNCHANGED <<op, storage, access, idx, ret, tmp>>

\* ... and completed
AssignEnd(t) ==
    /\ pc[t] = "assign"
    /\ storage' = [storage EXCEPT ![idx[t]].data =
                      [field_1 |-> 0, field_3 |-> Format(t, n[t] + 1)]]
    /\ Goto(t, "assigned")
    /\ UNCHANGED <<op, access, idx, ret, tmp>>

\* view().field_1++ : the read ...
IncrRead(t) ==
    /\ pc[t] = "open"
    /\ tmp' = [tmp EXCEPT ![t] = storage[idx[t]].data.field_1]
    /\ Goto(t, "incr")
    /\ UNCHANGED <<op, storage, access, idx, ret>>

\* ... and the write, then view().field_3.assign(format("{}_{}", field_3, i + 1))
IncrWrite(t) ==
    /\ pc[t] = "incr"
    /\ storage' = [storage EXCEPT ![idx[t]].data =
                      [field_1 |-> tmp[t] + 1, field_3 |-> FormatStr(@.field_3, t)]]
    /\ tmp' = [tmp EXCEPT ![t] = 0]
    /\ Goto(t, "assigned")
    /\ UNCHANGED <<op, access, idx, ret>>

\* a view dropped with the element's mutex still locked
CloseLocked(t) ==
    /\ pc[t] \in {"open", "assigned"}
    /\ Return(t, "none")
    /\ op' = [op EXCEPT ![t] = "none"]
    /\ UNCHANGED <<storage, access, tmp>>

\* ~ElementView: the unique_lock releases the element's mutex
Close(t) ==
    /\ pc[t] \in {"open", "assigned"}
    /\ storage' = [storage EXCEPT ![idx[t]].access = Unlock(@, t)]
    /\ Return(t, "none")
    /\ op' = [op EXCEPT ![t] = "none"]
    /\ UNCHANGED <<access, tmp>>

\* ------------------------------------------------------------- the vault
InitThreads ==
    /\ access = {}
    /\ pc = [t \in Threads |-> "idle"]
    /\ op = [t \in Threads |-> "none"]
    /\ idx = [t \in Threads |-> NoIdx]
    /\ ret = [t \in Threads |-> "none"]
    /\ tmp = [t \in Threads |-> 0]
    /\ deallocationsCount = 0
    /\ calls = 0

\* Vault<Data> v;
Init ==
    /\ storage = [i \in Slots |-> Element0]
    /\ InitThreads
    /\ n = [t \in Threads |-> 0]
    /\ expect = 0

\* any client: threads call the four operations in any order, with any index,
\* and may assign the payload through the view they hold before they drop it
Budget ==
    /\ calls < MaxCalls
    /\ calls' = calls + 1
    /\ UNCHANGED <<n, deallocationsCount, expect>>

Next ==
    \E t \in Threads :
        \/ AllocateCall(t) /\ Budget
        \/ \E i \in 0 .. NumSlots : ViewCall(t, i) /\ Budget
        \/ \E i \in 0 .. NumSlots : DeallocCall(t, i) /\ Budget
        \/ PredCall(t) /\ Budget
        \/ AssignBegin(t) /\ UNCHANGED driver
        \/ AssignEnd(t) /\ UNCHANGED driver
        \/ Close(t) /\ UNCHANGED driver
        \/ ViewLock(t) /\ UNCHANGED driver
        \/ ViewCheck(t) /\ UNCHANGED driver
        \/ AllocLock(t) /\ UNCHANGED driver
        \/ AllocFind(t) /\ UNCHANGED driver
        \/ AllocStore(t) /\ UNCHANGED driver
        \/ AllocView(t) /\ UNCHANGED driver
        \/ DeallocLock(t) /\ UNCHANGED driver
        \/ DeallocXchg(t) /\ UNCHANGED driver
        \/ PredLock(t) /\ UNCHANGED driver
        \/ PredFind(t) /\ UNCHANGED driver
        \/ PredLock2(t) /\ UNCHANGED driver
        \/ PredXchg(t) /\ UNCHANGED driver

Spec == Init /\ [][Next]_vars

\* ------------------------------------------------------------- main: fill
\* the pool once every element was allocated and tagged, by thread o[i] for
\* element i: a thread's allocations come in index order, and its k-th tag
\* ends with k
FilledBy(o) ==
    [i \in Slots |->
        [data |-> [field_1 |-> 0,
                   field_3 |-> Format(o[i],
                                 Cardinality({j \in Slots : j <= i /\ o[j] = o[i]}))],
         access |-> {},
         inUse |-> TRUE]]

FilledPools == {FilledBy(o) : o \in [Slots -> Threads]}

\* maxElementNumber / threadsCount allocations by each thread, taking turns
Filled == FilledBy([i \in Slots |-> (i % NumThreads) + 1])

\* auto view = v.allocate(); threads go on calling until one call more than
\* the pool has elements was made; a thread that allocate() threw in is over
FillCall(t) ==
    /\ ret[t] # "CapacityExceeded"
    /\ calls < NumSlots + 1
    /\ AllocateCall(t)
    /\ calls' = calls + 1
    /\ UNCHANGED <<n, deallocationsCount, expect>>

\* the view goes out of scope at the end of the loop body; n++
FillClose(t) ==
    /\ pc[t] = "assigned"
    /\ Close(t)
    /\ n' = [n EXCEPT ![t] = @ + 1]
    /\ UNCHANGED <<deallocationsCount, calls, expect>>

NextFill ==
    \E t \in Threads :
        \/ FillCall(t)
        \/ AssignBegin(t) /\ UNCHANGED driver
        \/ AssignEnd(t) /\ UNCHANGED driver
        \/ FillClose(t)
        \/ AllocLock(t) /\ UNCHANGED driver
        \/ AllocFind(t) /\ UNCHANGED driver
        \/ AllocStore(t) /\ UNCHANGED driver
        \/ AllocView(t) /\ UNCHANGED driver

SpecFill == Init /\ [][NextFill]_vars

\* ------------------------------------------------------------- main: modify
InitModify ==
    /\ storage = Filled
    /\ InitThreads
    /\ n = [t \in Threads |-> 0]
    /\ expect = NumThreads * Iterations

\* size_t idx = dist(rng); auto view{v.view(idx)};
ModifyCall(t) ==
    /\ n[t] < Iterations
    /\ \E i \in Slots : ViewCall(t, i)
    /\ UNCHANGED driver

\* the view goes out of scope at the end of the loop body; k++
ModifyClose(t) ==
    /\ pc[t] = "assigned"
    /\ Close(t)
    /\ n' = [n EXCEPT ![t] = @ + 1]
    /\ UNCHANGED <<deallocationsCount, calls, expect>>

NextModify ==
    \E t \in Threads :
        \/ ModifyCall(t)
        \/ ViewLock(t) /\ UNCHANGED driver
        \/ ViewCheck(t) /\ UNCHANGED driver
        \/ IncrRead(t) /\ UNCHANGED driver
        \/ IncrWrite(t) /\ UNCHANGED driver
        \/ ModifyClose(t)

SpecModify == InitModify /\ [][NextModify]_vars

\* ------------------------------------------------------------- main: drain
\* for (size_t idx = i; ...
InitDrain ==
    /\ storage \in FilledPools
    /\ InitThreads
    /\ n = [t \in Threads |-> t - 1]
    /\ expect = NumSlots

\* ... idx < maxElementNumber; ...) v.deallocate(idx)
DrainCall(t) ==
    /\ ret[t] = "none"
    /\ n[t] < NumSlots
    /\ DeallocCall(t, n[t])
    /\ calls' = calls + 1
    /\ UNCHANGED <<n, deallocationsCount, expect>>

\* if (v.deallocate(idx)) deallocationsCount.fetch_add(1);
DrainCount(t) ==
    /\ pc[t] = "idle"
    /\ ret[t] \in {"true", "false"}
    /\ deallocationsCount' = deallocationsCount + (IF ret[t] = "true" THEN 1 ELSE 0)
    /\ ret' = [ret EXCEPT ![t] = "none"]
    /\ pc' = [pc EXCEPT ![t] = "loop"]
    /\ UNCHANGED <<storage, access, op, idx, tmp, n, calls, expect>>

\* the end of the loop body: idx += stride
DrainStep(t) ==
    /\ pc[t] = "loop"
    /\ n' = [n EXCEPT ![t] = @ + DrainStride]
    /\ pc' = [pc EXCEPT ![t] = "idle"]
    /\ UNCHANGED <<storage, access, op, idx, ret, tmp, deallocationsCount, calls, expect>>

\* the loop is over: the thread ends and is joined
Finish(t) ==
    /\ pc[t] = "idle"
    /\ pc' = [pc EXCEPT ![t] = "done"]
    /\ UNCHANGED <<storage, access, op, idx, ret, tmp, driver>>

DrainDone(t) ==
    /\ ret[t] = "none"
    /\ n[t] >= NumSlots
    /\ Finish(t)

NextDrain ==
    \E t \in Threads :
        \/ DrainCall(t)
        \/ DrainCount(t)
        \/ DrainStep(t)
        \/ DrainDone(t)
        \/ DeallocLock(t) /\ UNCHANGED driver
        \/ DeallocXchg(t) /\ UNCHANGED driver

SpecDrain == InitDrain /\ [][NextDrain]_vars

\* ------------------------------------------------------------- main: drain by predicate
\* what a thread can leave in field_3
Tags == {<<>>} \cup {Format(t, 1) : t \in Threads}

\* any pool threads can leave behind them: each element free or in use, with
\* any tag; expect is the number of elements in use that match the predicate
InitPred ==
    /\ storage \in [Slots -> [data : [field_1 : {0}, field_3 : Tags],
                              access : {{}},
                              inUse : BOOLEAN]]
    /\ InitThreads
    /\ n = [t \in Threads |-> 0]
    /\ expect = Cardinality({i \in Slots : storage[i].inUse /\ prefix_pred(storage[i].data)})

\* while (v.deallocate(prefix_pred)) ...
PredLoopCall(t) ==
    /\ ret[t] = "none"
    /\ PredCall(t)
    /\ UNCHANGED driver

\* ... deallocationsCount.fetch_add(1);
PredCount(t) ==
    /\ pc[t] = "idle"
    /\ ret[t] = "true"
    /\ deallocationsCount' = deallocationsCount + 1
    /\ ret' = [ret EXCEPT ![t] = "none"]
    /\ UNCHANGED <<storage, access, pc, op, idx, tmp, n, calls, expect>>

\* deallocate returned false: the loop and the thread end
PredDone(t) ==
    /\ ret[t] = "false"
    /\ Finish(t)

PredThread(t) ==
    \/ PredLoopCall(t)
    \/ PredCount(t)
    \/ PredDone(t)
    \/ PredLock(t) /\ UNCHANGED driver
    \/ PredFind(t) /\ UNCHANGED driver
    \/ PredLock2(t) /\ UNCHANGED driver
    \/ PredXchg(t) /\ UNCHANGED driver

NextPred == \E t \in Threads : PredThread(t)

\* every thread that can run is run in the end
SpecPred == InitPred /\ [][NextPred]_vars /\ \A t \in Threads : WF_vars(PredThread(t))

\* ------------------------------------------------------------- one call per thread
\* each thread makes one call, allocate() or view(i), may assign through the
\* view it is returned, and lets the view go out of scope
HandoffCall(t) ==
    /\ n[t] = 0
    /\ AllocateCall(t) \/ \E i \in Slots : ViewCall(t, i)
    /\ n' = [n EXCEPT ![t] = 1]
    /\ UNCHANGED <<deallocationsCount, calls, expect>>

HandoffThread(t) ==
    \/ HandoffCall(t)
    \/ AssignBegin(t) /\ UNCHANGED driver
    \/ AssignEnd(t) /\ UNCHANGED driver
    \/ Close(t) /\ UNCHANGED driver
    \/ ViewLock(t) /\ UNCHANGED driver
    \/ ViewCheck(t) /\ UNCHANGED driver
    \/ AllocLock(t) /\ UNCHANGED driver
    \/ AllocFind(t) /\ UNCHANGED driver
    \/ AllocStore(t) /\ UNCHANGED driver
    \/ AllocView(t) /\ UNCHANGED driver

NextHandoff == \E t \in Threads : HandoffThread(t)

\* every thread that can run is run in the end
SpecHandoff == Init /\ [][NextHandoff]_vars /\ \A t \in Threads : WF_vars(HandoffThread(t))

\* ------------------------------------------------------------- dump()
\* the filled pool after any of its elements were freed
SparsePools == {[i \in Slots |-> [Filled[i] EXCEPT !.inUse = b[i]]] :
                    b \in [Slots -> BOOLEAN]}

InitDump ==
    /\ storage \in SparsePools
    /\ InitThreads
    /\ n = [t \in Threads |-> 0]
    /\ expect = Cardinality({i \in Slots : storage[i].inUse})

\* for (size_t i = 0; i < maxElementNumber; i++) { auto v{view(i)};
DumpCall(t) ==
    /\ t = 1
    /\ ret[t] = "none"
    /\ n[t] < NumSlots
    /\ ViewCall(t, n[t])
    /\ UNCHANGED driver

\* fmt::print(i, v().field_3, v().field_1); v goes out of scope; i++
DumpPrint(t) ==
    /\ t = 1
    /\ pc[t] = "open"
    /\ Close(t)
    /\ n' = [n EXCEPT ![t] = @ + 1]
    /\ UNCHANGED <<deallocationsCount, calls, expect>>

\* the loop is over: dump() returns
DumpReturn(t) ==
    /\ t = 1
    /\ ret[t] = "none"
    /\ n[t] = NumSlots
    /\ Finish(t)

\* nothing in dump() catches what view(i) throws: dump() is left by the exception
DumpThrow(t) ==
    /\ t = 1
    /\ ret[t] = "NotAllocated"
    /\ Finish(t)

\* the other threads free elements by index meanwhile
DumpDealloc(t) ==
    /\ t # 1
    /\ \E i \in Slots : DeallocCall(t, i)
    /\ Budget

NextDump ==
    \E t \in Threads :
        \/ DumpCall(t)
        \/ DumpPrint(t)
        \/ DumpReturn(t)
        \/ DumpThrow(t)
        \/ DumpDealloc(t)
        \/ ViewLock(t) /\ UNCHANGED driver
        \/ ViewCheck(t) /\ UNCHANGED driver
        \/ DeallocLock(t) /\ UNCHANGED driver
        \/ DeallocXchg(t) /\ UNCHANGED driver

SpecDump == InitDump /\ [][NextDump]_vars

\* ------------------------------------------------------------- main: sparse fill
\* fmt::format("additional {}_{}", a, b): the leading 0 stands for the word
FormatAdditional(a, b) == <<0, a, b>>

\* the pool after the drains; expect is the number of elements freed
InitSparse ==
    /\ storage \in SparsePools
    /\ InitThreads
    /\ n = [t \in Threads |-> 0]
    /\ expect = Cardinality({i \in Slots : ~storage[i].inUse})

\* auto view = v.allocate(); as many allocations in all as elements were freed
SparseCall(t) ==
    /\ calls < expect
    /\ AllocateCall(t)
    /\ calls' = calls + 1
    /\ UNCHANGED <<n, deallocationsCount, expect>>

\* view().field_3.assign(format("additional {}_{}", i + 1, n + 1)); view().field_1 = 0;
SparseAssign(t) ==
    /\ pc[t] = "open"
    /\ storage' = [storage EXCEPT ![idx[t]].data =
                      [field_1 |-> 0, field_3 |-> FormatAdditional(t, n[t] + 1)]]
    /\ Goto(t, "assigned")
    /\ UNCHANGED <<op, access, idx, ret, tmp, driver>>

NextSparse ==
    \E t \in Threads :
        \/ SparseCall(t)
        \/ SparseAssign(t)
        \/ FillClose(t)
        \/ AllocLock(t) /\ UNCHANGED driver
        \/ AllocFind(t) /\ UNCHANGED driver
        \/ AllocStore(t) /\ UNCHANGED driver
        \/ AllocView(t) /\ UNCHANGED driver

SpecSparse == InitSparse /\ [][NextSparse]_vars

\* ------------------------------------------------------------- fair threads
\* threads start from the filled pool; each makes one call of any
\* operation with a valid index, and lets go of the view it is returned
InitLive ==
    /\ storage = Filled
    /\ InitThreads
    /\ n = [t \in Threads |-> 0]
    /\ expect = 0

LiveCall(t) ==
    /\ n[t] = 0
    /\ \/ AllocateCall(t)
       \/ \E i \in Slots : ViewCall(t, i)
       \/ \E i \in Slots : DeallocCall(t, i)
       \/ PredCall(t)
    /\ n' = [n EXCEPT ![t] = @ + 1]
    /\ UNCHANGED <<deallocationsCount, calls, expect>>

\* a blocking std::mutex::lock
Acquire(t) ==
    \/ ViewLock(t) /\ UNCHANGED driver
    \/ AllocLock(t) /\ UNCHANGED driver
    \/ AllocView(t) /\ UNCHANGED driver
    \/ DeallocLock(t) /\ UNCHANGED driver
    \/ PredLock(t) /\ UNCHANGED driver
    \/ PredLock2(t) /\ UNCHANGED driver

\* any other statement of a call, and the end of a view
Progress(t) ==
    \/ ViewCheck(t) /\ UNCHANGED driver
    \/ AllocFind(t) /\ UNCHANGED driver
    \/ AllocStore(t) /\ UNCHANGED driver
    \/ DeallocXchg(t) /\ UNCHANGED driver
    \/ PredFind(t) /\ UNCHANGED driver
    \/ PredXchg(t) /\ UNCHANGED driver
    \/ Close(t) /\ UNCHANGED driver

NextLive == \E t \in Threads : LiveCall(t) \/ Acquire(t) \/ Progress(t)

\* a running thread goes on running, a view is closed in the end, and a
\* thread that waits for a mutex that is free again and again gets it
SpecLive ==
    /\ InitLive
    /\ [][NextLive]_vars
    /\ \A t \in Threads : WF_vars(Progress(t)) /\ SF_vars(Acquire(t))

\* ------------------------------------------------------------- properties
Quiet == \A t \in Threads : pc[t] = "idle"

AllDone == \A t \in Threads : pc[t] = "done"

Full == \A i \in Slots : storage[i].inUse

\* the thread waits for the mutex of element idx[t]
Blocked(t) == pc[t] \in {"view_lock", "alloc_view", "dealloc_lock", "pred_lock2"}

\* C1: every element's mutex has at most one owner; a thread with an open
\* view owns the mutex of the element it views, and no two threads have a
\* view open on the same element.
C1_SlotLockExclusive ==
    /\ \A i \in Slots : Cardinality(storage[i].access) <= 1
    /\ \A t \in Threads : pc[t] \in Holding => storage[idx[t]].access = {t}
    /\ \A t, u \in Threads :
          t # u /\ pc[t] \in Holding /\ pc[u] \in Holding => idx[t] # idx[u]

\* a thread assigns through its view while another waits for the same element
C1_Witness ==
    \E t, u \in Threads :
        /\ t # u
        /\ pc[t] = "assign"
        /\ Blocked(u)
        /\ idx[u] = idx[t]

\* the thread has chosen element idx[t] in allocate()
Selected(t) == pc[t] \in {"alloc_store", "alloc_view"} \cup Holding

RECURSIVE SumN(_)
SumN(S) == IF S = {} THEN 0
           ELSE LET t == CHOOSE x \in S : TRUE IN n[t] + SumN(S \ {t})

\* C2: threads filling an empty pool, no deallocate: none of the first
\* NumSlots allocate() calls fails, no two calls have the same element
\* selected, and once NumSlots calls are over every element is in use, each
\* tagged by the one call that took it.
C2_FillDistinct ==
    /\ calls <= NumSlots => \A t \in Threads : ret[t] # "CapacityExceeded"
    /\ \A t, u \in Threads :
          t # u /\ Selected(t) /\ Selected(u) => idx[t] # idx[u]
    /\ calls = NumSlots /\ Quiet => Full /\ storage \in FilledPools /\ SumN(Threads) = NumSlots

\* the pool was filled by NumSlots calls, at least two threads taking part
C2_Witness ==
    /\ calls = NumSlots
    /\ Quiet
    /\ Full
    /\ \E t, u \in Threads : t # u /\ n[t] >= 1 /\ n[u] >= 1

\* C3: allocate() on a full pool throws, changes nothing in the pool and
\* leaves the vault's mutex unlocked ...
C3_Throw ==
    \A t \in Threads :
        /\ Full /\ pc[t] = "alloc_find" => pc'[t] \in {"alloc_find", "idle"}
        /\ pc[t] = "alloc_find" /\ pc'[t] = "idle" =>
              /\ Full
              /\ ret'[t] = "CapacityExceeded"
              /\ storage' = storage
              /\ access' = {}

\* ... and of NumSlots + 1 calls on an empty pool just one throws, after the
\* other NumSlots have each taken an element.
C3_Count ==
    /\ calls <= NumSlots => \A t \in Threads : ret[t] # "CapacityExceeded"
    /\ calls = NumSlots + 1 /\ Quiet =>
          /\ Cardinality({t \in Threads : ret[t] = "CapacityExceeded"}) = 1
          /\ SumN(Threads) = NumSlots
          /\ Full

C3_CapacityExceeded == [][C3_Throw]_vars /\ []C3_Count

\* the last of NumSlots + 1 calls has thrown and the vault's mutex is free
C3_Witness ==
    /\ calls = NumSlots + 1
    /\ Quiet
    /\ access = {}
    /\ \E t \in Threads : op[t] = "allocate" /\ ret[t] = "CapacityExceeded"

\* C4: view(idx) that finds the element not in use throws, returns no view
\* and unlocks the element's mutex; no view returned by view() is ever on an
\* element that is not in use.
C4_Step ==
    \A t \in Threads :
        pc[t] = "view_check" /\ pc'[t] # "view_check" /\ ~storage[idx[t]].inUse =>
            /\ pc'[t] = "idle"
            /\ ret'[t] = "NotAllocated"
            /\ storage'[idx[t]].access = {}
            /\ \A i \in Slots : storage'[i].inUse = storage[i].inUse
                                 /\ storage'[i].data = storage[i].data

C4_NoViewOfFree ==
    \A t \in Threads :
        op[t] = "view" /\ pc[t] \in Holding => storage[idx[t]].inUse

C4_NotAllocated == [][C4_Step]_vars /\ []C4_NoViewOfFree

\* one thread's deallocate(idx) freed an element, another's view(idx) threw,
\* and every element's mutex is free
C4_Witness ==
    \E t, u \in Threads :
        /\ op[u] = "deallocate" /\ ret[u] = "true" /\ pc[u] = "idle"
        /\ op[t] = "view" /\ ret[t] = "NotAllocated" /\ pc[t] = "idle"
        /\ \A i \in Slots : storage[i].access = {} /\ ~storage[i].inUse

\* C5: whenever an element's inUse changes, the thread that takes the step
\* owns that element's mutex.
C5_MutationsUnderSlotLock ==
    [][\A i \in Slots :
          storage'[i].inUse # storage[i].inUse =>
              \E t \in Threads : pc'[t] # pc[t] /\ t \in storage[i].access]_vars

\* C6: deallocate(idx) returns the value inUse had when it was exchanged and
\* leaves the element not in use, its mutex unlocked, every payload and
\* every other element as they were; if the element was not in use, nothing
\* in the pool has changed but the mutex.
C6_Step ==
    \A t \in Threads :
        pc[t] = "dealloc_xchg" /\ pc'[t] # "dealloc_xchg" =>
            /\ pc'[t] = "idle"
            /\ ret'[t] = (IF storage[idx[t]].inUse THEN "true" ELSE "false")
            /\ ~storage'[idx[t]].inUse
            /\ storage'[idx[t]].access = {}
            /\ \A i \in Slots : storage'[i].data = storage[i].data
            /\ \A i \in Slots \ {idx[t]} : storage'[i] = storage[i]

C6_DeallocateIndex == [][C6_Step]_vars

\* two deallocate(idx) calls are over, one returned true and one false, and
\* no element is in use
C6_Witness ==
    \E t, u \in Threads :
        /\ op[t] = "deallocate" /\ ret[t] = "true" /\ pc[t] = "idle"
        /\ op[u] = "deallocate" /\ ret[u] = "false" /\ pc[u] = "idle"
        /\ \A i \in Slots : ~storage[i].inUse

\* C7: threads draining a full pool by index over overlapping ranges: every
\* element freed so far was reported by exactly one true return, and once
\* the threads are over the count of true returns is the number of elements.
C7_DrainCount ==
    /\ deallocationsCount
          + Cardinality({t \in Threads : pc[t] = "idle" /\ ret[t] = "true"})
       = Cardinality({i \in Slots : ~storage[i].inUse})
    /\ AllDone => deallocationsCount = NumSlots /\ deallocationsCount = expect

\* the threads are over, having made more calls than there are elements
C7_Witness ==
    /\ AllDone
    /\ calls > NumSlots
    /\ deallocationsCount = NumSlots

RECURSIVE SumField1(_)
SumField1(S) == IF S = {} THEN 0
                ELSE LET i == CHOOSE x \in S : TRUE
                     IN storage[i].data.field_1 + SumField1(S \ {i})

\* C8: threads incrementing field_1 under a view: the counters add up to
\* the number of increments written, and to threadsCount * iterations once
\* the threads are over.
C8_NoLostUpdate ==
    /\ SumField1(Slots)
          = SumN(Threads) + Cardinality({t \in Threads : pc[t] = "assigned"})
    /\ Quiet /\ (\A t \in Threads : n[t] = Iterations) =>
          SumField1(Slots) = NumThreads * Iterations

\* the threads are over and two of them have incremented the same element
C8_Witness ==
    /\ Quiet
    /\ \A t \in Threads : n[t] = Iterations
    /\ SumField1(Slots) = expect
    /\ \E i \in Slots : storage[i].data.field_1 >= 2

\* no element in use satisfies the predicate
NoMatch == \A i \in Slots : ~(storage[i].inUse /\ prefix_pred(storage[i].data))

\* C9: threads looping on deallocate(pred) until it returns false, nothing
\* else running: every thread ends; when all have, the true returns number
\* the elements that were in use and matching, and none such is left; once
\* none is left, no scan finds an element.
C9_Drained == AllDone => deallocationsCount = expect /\ NoMatch

C9_NoLaterMatch ==
    NoMatch => /\ NoMatch'
               /\ \A t \in Threads :
                     pc[t] \in {"idle", "pred_lock", "pred_find"} =>
                         pc'[t] # "pred_lock2" /\ (ret'[t] = "true" => ret[t] = "true")

C9_PredicateDrain ==
    /\ <>AllDone
    /\ []C9_Drained
    /\ [][C9_NoLaterMatch]_vars

\* the threads are over after they freed a pool in which every element matched
C9_Witness ==
    /\ AllDone
    /\ expect = NumSlots
    /\ deallocationsCount = expect
    /\ NoMatch

\* C10: while a thread holds the view allocate() returned, another thread's
\* view() of the same element stays waiting for the mutex; with no
\* deallocate, the waiting thread is returned a view of that element in the end.
C10_Waits ==
    \A a, b \in Threads :
        a # b /\ op[a] = "allocate" /\ pc[a] \in Holding
              /\ op[b] = "view" /\ idx[b] = idx[a]
            => pc[b] = "view_lock"

C10_Handoff ==
    /\ []C10_Waits
    /\ \A a, b \in Threads : \A i \in Slots :
          (a # b /\ op[a] = "allocate" /\ pc[a] \in Holding /\ idx[a] = i
                 /\ pc[b] = "view_lock" /\ idx[b] = i)
             ~> (op[b] = "view" /\ pc[b] = "open" /\ idx[b] = i
                 /\ storage[i].access = {b})

\* a thread has assigned through the view allocate() returned, and holds it,
\* while another waits in view() for the same element
C10_Witness ==
    \E a, b \in Threads :
        /\ a # b
        /\ op[a] = "allocate" /\ pc[a] = "assigned"
        /\ op[b] = "view" /\ pc[b] = "view_lock" /\ idx[b] = idx[a]

\* C11: dump() visits the indices in order, prints an element only while it
\* owns that element's mutex, is never left by the exception of view() on an
\* element not in use, and is over only after the last index. 
C11_DumpSkipsFree ==
    /\ ret[1] # "NotAllocated"
    /\ pc[1] = "open" => storage[idx[1]].access = {1} /\ idx[1] = n[1]
    /\ pc[1] = "done" => n[1] = NumSlots

\* the thread waits for an element's mutex that another thread's view owns
WaitsForView(t) ==
    /\ Blocked(t)
    /\ \E u \in Threads \ {t} : pc[u] \in Holding /\ idx[u] = idx[t]

\* C12: no thread owns the vault's mutex while it waits for an element's
\* mutex owned by another thread's view; allocate() has let go of the
\* vault's mutex when it comes to lock the element it selected.
C12_DirectoryLockScanOnly ==
    /\ \A t \in Threads : WaitsForView(t) => t \notin access
    /\ \A t \in Threads : pc[t] = "alloc_view" => t \notin access

\* C13: a thread in view(idx) or deallocate(idx) never owns the vault's
\* mutex, and whenever the mutex of its element is free its next step can be
\* taken, whoever owns the vault's mutex; once it owns the element's mutex
\* the rest of the call can always be taken.
C13_IndexCallsBypassDirectory ==
    \A t \in Threads :
        /\ pc[t] \in {"view_lock", "view_check", "dealloc_lock", "dealloc_xchg"} =>
              t \notin access
        /\ pc[t] = "view_lock" /\ storage[idx[t]].access = {} => ENABLED ViewLock(t)
        /\ pc[t] = "dealloc_lock" /\ storage[idx[t]].access = {} => ENABLED DeallocLock(t)
        /\ pc[t] = "view_check" => ENABLED ViewCheck(t)
        /\ pc[t] = "dealloc_xchg" => ENABLED DeallocXchg(t)

\* a view(idx) or a deallocate(idx) has come to a free element mutex while
\* a third call owns the vault's mutex inside its scan
C13_Witness ==
    \E t, u \in Threads :
        /\ t # u
        /\ u \in access
        /\ pc[u] \in {"alloc_find", "pred_find", "alloc_view", "pred_lock2"}
        /\ pc[t] \in {"view_lock", "dealloc_lock"}
        /\ storage[idx[t]].access = {}

\* C14: view(idx) and deallocate(idx) with idx past the last element end at
\* once with IndexOutOfRange, no mutex locked and storage as it was;
\* deallocate(idx) with a valid idx goes on to lock the element and ends
\* with true or false, never with an exception.
C14_Step ==
    \A t \in Threads :
        /\ ViewCall(t, NumSlots) \/ DeallocCall(t, NumSlots) =>
              /\ pc'[t] = "idle"
              /\ ret'[t] = "IndexOutOfRange"
              /\ storage' = storage
              /\ access' = access
              /\ t \notin access'
              /\ \A i \in Slots : t \notin storage'[i].access
        /\ \A i \in Slots :
              DeallocCall(t, i) => pc'[t] = "dealloc_lock" /\ ret'[t] = "none"
        /\ op[t] = "deallocate" /\ pc[t] # "idle" /\ pc'[t] = "idle" =>
              ret'[t] \in {"true", "false"}

C14_IndexOutOfRange == [][C14_Step]_vars

\* both calls have thrown IndexOutOfRange on a pool with an element in use
C14_Witness ==
    \E t, u \in Threads :
        /\ t # u
        /\ op[t] = "view" /\ ret[t] = "IndexOutOfRange" /\ pc[t] = "idle"
        /\ op[u] = "deallocate" /\ ret[u] = "IndexOutOfRange" /\ pc[u] = "idle"
        /\ \E i \in Slots : storage[i].inUse
        /\ access = {}
        /\ \A i \in Slots : storage[i].access = {}

\* the thread is in the scan of allocate() or past it
Scanned(t) ==
    \/ pc[t] \in {"alloc_find", "alloc_store", "alloc_view"}
    \/ op[t] = "allocate" /\ pc[t] \in Holding

\* C15: the scan of allocate() starts at element 0, moves on by one only
\* from an element it reads in use, and selects the first element it reads
\* not in use, which is the element allocate() marks, locks and returns; with
\* no deallocate running, every element before the scan's position is in use.
C15_Step ==
    \A t \in Threads :
        /\ pc[t] = "alloc_lock" /\ pc'[t] = "alloc_find" => idx'[t] = 0
        /\ pc[t] = "alloc_find" /\ pc'[t] = "alloc_find" /\ idx'[t] # idx[t] =>
              storage[idx[t]].inUse /\ idx'[t] = idx[t] + 1
        /\ pc[t] = "alloc_find" /\ pc'[t] = "alloc_store" =>
              ~storage[idx[t]].inUse /\ idx'[t] = idx[t]
        /\ pc[t] = "alloc_store" /\ pc'[t] = "alloc_view" =>
              storage'[idx[t]].inUse /\ idx'[t] = idx[t]
        /\ pc[t] = "alloc_view" /\ pc'[t] = "open" =>
              storage'[idx[t]].access = {t} /\ idx'[t] = idx[t]

C15_LowerInUse ==
    \A t \in Threads :
        Scanned(t) => \A j \in Slots : j < idx[t] => storage[j].inUse

C15_LowestFree == [][C15_Step]_vars /\ []C15_LowerInUse

\* allocate() returned an element after the first, in a pool that had
\* elements in use and elements not in use when the threads began
C15_Witness ==
    \E t \in Threads :
        /\ op[t] = "allocate" /\ pc[t] = "open"
        /\ idx[t] >= 1
        /\ expect >= 1 /\ expect < NumSlots

\* the step ends a deallocate(pred) call of thread t
PredReturns(t) == op[t] = "deallocate_pred" /\ pc[t] # "idle" /\ pc'[t] = "idle"

\* C16 as stated: a deallocate(pred) call returns true if its scan found an
\* element in use that satisfies the predicate, and false only if it found none.
C16_TrueWheneverFound ==
    [][\A t \in Threads :
          PredReturns(t) => (ret'[t] = "true" <=> pc[t] = "pred_xchg")]_vars

\* C16 amended: the scan selects only an element it reads in use; a call
\* whose scan selected an element returns the value inUse has when the call
\* exchanges it under the element's mutex, false if the element was freed
\* since the scan read it; a call whose scan reached the end returns false
\* and changes nothing.
C16_Step ==
    \A t \in Threads :
        /\ pc[t] = "pred_find" /\ pc'[t] = "pred_lock2" => storage[idx[t]].inUse
        /\ PredReturns(t) =>
              IF pc[t] = "pred_xchg"
                THEN /\ ret'[t] = (IF storage[idx[t]].inUse THEN "true" ELSE "false")
                     /\ ~storage'[idx[t]].inUse
                ELSE /\ pc[t] = "pred_find"
                     /\ idx[t] = NumSlots
                     /\ ret'[t] = "false"
                     /\ storage' = storage

C16_ReturnsExchangedFlag == [][C16_Step]_vars

\* a call whose scan selected an element owns its mutex and is about to
\* exchange a flag that another call has cleared meanwhile
C16_Witness ==
    \E t \in Threads :
        /\ pc[t] = "pred_xchg"
        /\ ~storage[idx[t]].inUse

\* C17: the scan of deallocate(pred) selects an element while the thread
\* owns no element's mutex; from then on the call only locks that element and
\* clears its inUse, whatever the payload has become: the lock step can be
\* taken whenever the element's mutex is free, and the payload is neither
\* looked at again nor changed.
C17_Step ==
    \A t \in Threads :
        /\ pc[t] = "pred_find" /\ pc'[t] = "pred_lock2" =>
              /\ idx'[t] = idx[t]
              /\ \A i \in Slots : t \notin storage[i].access
        /\ pc[t] = "pred_lock2" /\ pc'[t] # "pred_lock2" =>
              /\ pc'[t] = "pred_xchg"
              /\ idx'[t] = idx[t]
              /\ storage'[idx[t]].access = {t}
        /\ pc[t] = "pred_xchg" /\ pc'[t] # "pred_xchg" =>
              /\ pc'[t] = "idle"
              /\ ~storage'[idx[t]].inUse
              /\ storage'[idx[t]].data = storage[idx[t]].data

C17_LockEnabled ==
    \A t \in Threads :
        pc[t] = "pred_lock2" /\ storage[idx[t]].access = {} => ENABLED PredLock2(t)

C17_StalePredicate == [][C17_Step]_vars /\ []C17_LockEnabled

\* the call owns the mutex of the element its scan selected and is about to
\* free it; the element is in use and its payload satisfies the predicate no more
C17_Witness ==
    \E t \in Threads :
        /\ pc[t] = "pred_xchg"
        /\ storage[idx[t]].inUse
        /\ ~prefix_pred(storage[idx[t]].data)

\* C18: a step that opens a view (in view() or at the end of allocate()),
\* uses it or closes it leaves every inUse as it was; a payload changes only
\* in the step by which the thread holding a view of that element writes
\* through it, so no step of allocate() or of either deallocate changes one.
C18_Step ==
    /\ \A t \in Threads :
          pc[t] \in {"view_lock", "view_check", "alloc_view"} \cup Holding
             /\ pc'[t] # pc[t]
          => \A i \in Slots : storage'[i].inUse = storage[i].inUse
    /\ \A i \in Slots :
          storage'[i].data # storage[i].data =>
              \E t \in Threads :
                  /\ pc[t] \in {"assign", "incr"}
                  /\ pc'[t] = "assigned"
                  /\ idx[t] = i
                  /\ storage[i].access = {t}

C18_Frame == [][C18_Step]_vars

\* allocate() has returned a view of an element that still carries the
\* payload of its former holder; no other element is in use
C18_Witness ==
    \E t \in Threads :
        /\ op[t] = "allocate" /\ pc[t] = "open"
        /\ storage[idx[t]].data # Data0
        /\ \A i \in Slots \ {idx[t]} : ~storage[i].inUse

\* C19: every view a thread holds, from view() or from allocate(), is of an
\* element in use.
C19_ViewsOnlyOfInUse ==
    \A t \in Threads : pc[t] \in Holding => storage[idx[t]].inUse

\* the thread is inside a call that has not returned or thrown yet
InCall(t) ==
    pc[t] \in {"view_lock", "view_check", "alloc_lock", "alloc_find", "alloc_store",
               "alloc_view", "dealloc_lock", "dealloc_xchg", "pred_lock",
               "pred_find", "pred_lock2", "pred_xchg"}

\* C20: no thread waits for the vault's mutex while it owns an element's
\* mutex, and whenever calls are in progress some thread can take a step;
\* with views closed in the end and mutexes granted fairly, every call of
\* every operation returns or throws.
C20_LockOrder ==
    /\ \A t \in Threads :
          pc[t] \in {"alloc_lock", "pred_lock"} =>
              \A i \in Slots : t \notin storage[i].access
    /\ (\E t \in Threads : InCall(t)) =>
          \E t \in Threads : ENABLED Acquire(t) \/ ENABLED Progress(t)

C20_EveryCallReturns ==
    /\ []C20_LockOrder
    /\ \A t \in Threads : InCall(t) ~> ~InCall(t)

\* a call owns the vault's mutex and waits for an element's mutex that
\* another thread's view owns, while a third call, if there is a thread for
\* it, waits behind
C20_Witness ==
    \E t \in Threads :
        /\ t \in access
        /\ WaitsForView(t)
        /\ \A u \in Threads \ {t} : pc[u] \in Holding \cup {"alloc_lock", "pred_lock"}

====
